---- MODULE Spec2Model ----
(***************************************************************************)
(* State-machine model of the lead-scoring engine of mvp_crm:              *)
(*   src/myparser/ai_context_parser.py  (AIContextParser)                  *)
(*   src/myparser/channel_parser.py     (ChannelParser)                    *)
(*                                                                         *)
(* Time is the value of datetime.now(), counted in minutes.  Texts are     *)
(* sequences of Unicode code points, as Python strings are.                *)
(***************************************************************************)
EXTENDS Integers, Sequences, FiniteSets, TLC

VARIABLES
  cfg,              \* the parsing configuration read by __init__
  now,              \* datetime.now(), in minutes
  user_contexts,    \* AIContextParser.user_contexts : user id -> UserContext
  analysis_cache,   \* AIContextParser.analysis_cache, in dict insertion order
  processed_leads,  \* AIContextParser.processed_leads : user id -> datetime
  leads,            \* the rows create_lead has written to the durable store
  processed_messages,  \* ChannelParser.processed_messages
  recent_leads_cache,  \* ChannelParser.recent_leads_cache : lead key -> datetime
  accepted,         \* history: user id -> the times line 131 recorded for it
  arrivals,         \* history: user id -> every message appended to the
                    \* context it has now, in arrival order
  evaluated_users,  \* history: the users _analyze_user_context was called for
  ndeliv,           \* number of process_message calls so far
  tasks,            \* the process_message calls suspended at an await
  ev                \* what the last handler call did

vars == <<cfg, now, user_contexts, analysis_cache, processed_leads, leads,
          processed_messages, recent_leads_cache, accepted, arrivals,
          evaluated_users, ndeliv, tasks, ev>>

\* The state of the ChannelParser object
channel_vars == <<processed_messages, recent_leads_cache>>

(***************************************************************************)
(* Bounds of the model                                                     *)
(***************************************************************************)
MaxUsers == 2
MaxDeliveries == 4
MaxNow == 150
TickMinutes == 30
MaxTasks == 2

(***************************************************************************)
(* Program constants                                                       *)
(***************************************************************************)
QuietMinutes == 30
FingerprintMessages == 5
CacheCap == 1000
CacheTrim == 500

HoursToMinutes(h) == h * 60

Users == 1..MaxUsers

Min(a, b) == IF a < b THEN a ELSE b
Max(a, b) == IF a > b THEN a ELSE b

(***************************************************************************)
(* Python values                                                           *)
(***************************************************************************)
\* Optional[T]: None is the empty sequence, a value v is <<v>>.
None == <<>>
Some(v) == <<v>>

\* message.text of an update that carries no text (None): no code point is -1.
NoText == <<-1>>

\* s[start:] with Python's index rules: a negative start counts from the end,
\* and -0 is 0, so s[-0:] is the whole list.
PySliceFrom(s, start) ==
  LET n == Len(s)
      i == IF start < 0 THEN Max(n + start, 0) ELSE Min(start, n)
  IN  SubSeq(s, i + 1, n)

\* s[:stop] for stop >= 0.
PySliceTo(s, stop) == SubSeq(s, 1, Min(stop, Len(s)))

\* sep.join(parts)
RECURSIVE Join(_, _)
Join(sep, parts) ==
  IF Len(parts) = 0 THEN <<>>
  ELSE IF Len(parts) = 1 THEN parts[1]
  ELSE parts[1] \o sep \o Join(sep, Tail(parts))

\* " | "
BarSep == <<32, 124, 32>>

(***************************************************************************)
(* Inputs                                                                  *)
(***************************************************************************)
\* "crm?" and "hi"
TextCrm == <<99, 114, 109, 63>>
TextHi == <<104, 105>>
Texts == {TextCrm, TextHi}

\* update.effective_chat: chat 1 is a group without username, chat 2 is the
\* channel @chan, chat 3 is a private chat.
Chat1 == [id |-> 1, username |-> "", title |-> "one", type |-> "group"]
Chat2 == [id |-> 2, username |-> "chan", title |-> "", type |-> "channel"]
ChatPrivate == [id |-> 3, username |-> "", title |-> "", type |-> "private"]
Chats == {Chat1, Chat2}

\* The parsing section of the configuration.
CfgBase ==
  [enabled |-> TRUE, channels |-> <<"1", "@chan">>,
   min_confidence_score |-> 70, min_interest_score |-> 60,
   context_window_hours |-> 1,
   min_messages_for_analysis |-> 1, max_context_messages |-> 3]
Configs ==
  { CfgBase,
    [CfgBase EXCEPT !.min_messages_for_analysis = 2, !.max_context_messages = 2],
    [CfgBase EXCEPT !.max_context_messages = 0],
    [CfgBase EXCEPT !.enabled = FALSE] }

\* update.effective_user is None (a channel post)
NoUser == 0

\* The raw answers of the remote classifier: json says whether re.search and
\* json.loads found an object, data is that object without the values that
\* int() rejects, and invalid names the keys that hold such a value.
RespHot == [json |-> TRUE, invalid |-> {},
            data |-> ("is_lead" :> TRUE @@ "confidence_score" :> 85 @@
                      "lead_quality" :> "hot" @@ "urgency_level" :> "immediate")]
RespWeak == [json |-> TRUE, invalid |-> {},
             data |-> ("is_lead" :> TRUE @@ "confidence_score" :> 50 @@
                       "lead_quality" :> "cold")]
RespNo == [json |-> TRUE, invalid |-> {},
           data |-> ("is_lead" :> FALSE @@ "confidence_score" :> 150)]
RespNoJson == [json |-> FALSE, invalid |-> {}, data |-> <<>>]
RespNoFields == [json |-> TRUE, invalid |-> {}, data |-> <<>>]
RespBadScore == [json |-> TRUE, invalid |-> {"confidence_score"},
                 data |-> ("is_lead" :> TRUE @@ "lead_quality" :> "hot")]
Responses == {RespHot, RespWeak, RespNo, RespNoJson, RespNoFields, RespBadScore}

\* get_claude_client() and the outcome of the awaited messages.create call.
Remotes ==
  {[avail |-> FALSE, outcome |-> "none", response |-> RespNoJson],
   [avail |-> TRUE, outcome |-> "timeout", response |-> RespNoJson],
   [avail |-> TRUE, outcome |-> "error", response |-> RespNoJson]}
  \cup {[avail |-> TRUE, outcome |-> "ok", response |-> r] : r \in Responses}

(***************************************************************************)
(* AIContextParser                                                         *)
(***************************************************************************)
InList(x, l) == \E i \in 1..Len(l) : l[i] = x

\* dict.get(key, default)
Get(d, k, default) == IF k \in DOMAIN d THEN d[k] ELSE default

IsChannelMonitored(chat_id, chat_username) ==
  IF ~cfg.enabled THEN FALSE
  ELSE IF InList(ToString(chat_id), cfg.channels) THEN TRUE
  ELSE IF chat_username # ""
       THEN InList("@" \o chat_username, cfg.channels)
            \/ InList(chat_username, cfg.channels)
       ELSE FALSE

\* A sweep that keeps a context for three windows instead of two
CleanupOldContextsThreeWindows(ctxs, t) ==
  LET cutoff_time == t - HoursToMinutes(cfg.context_window_hours * 3)
      users_to_remove == {u \in DOMAIN ctxs : ctxs[u].last_activity < cutoff_time}
  IN  [u \in (DOMAIN ctxs) \ users_to_remove |-> ctxs[u]]

\* _cleanup_old_contexts at time t
CleanupOldContexts(ctxs, t) ==
  LET cutoff_time == t - HoursToMinutes(cfg.context_window_hours * 2)
      users_to_remove == {u \in DOMAIN ctxs : ctxs[u].last_activity < cutoff_time}
  IN  [u \in (DOMAIN ctxs) \ users_to_remove |-> ctxs[u]]

\* A truncation that keeps exactly the last max_context_messages messages
LimitMessagesToCap(messages) ==
  IF Len(messages) > cfg.max_context_messages
  THEN SubSeq(messages, Len(messages) - cfg.max_context_messages + 1,
              Len(messages))
  ELSE messages

\* The truncation of lines 185-186
LimitMessages(messages) ==
  IF Len(messages) > cfg.max_context_messages
  THEN PySliceFrom(messages, -cfg.max_context_messages)
  ELSE messages

\* _update_user_context at time t: the contexts it leaves
UpdateUserContext(ctxs, upd, t) ==
  LET user_id == upd.user
      created == IF user_id \in DOMAIN ctxs THEN ctxs
                 ELSE ctxs @@ (user_id :> [user_id |-> user_id,
                                           messages |-> <<>>,
                                           first_seen |-> t,
                                           last_activity |-> t,
                                           channel_info |-> upd.chat])
      message_data == [text |-> upd.text, message_id |-> upd.message_id]
      user_context == created[user_id]
      updated == [user_context EXCEPT
                    !.messages = LimitMessages(Append(@, message_data)),
                    !.last_activity = t]
  IN  CleanupOldContexts([created EXCEPT ![user_id] = updated], t)

\* _should_analyze_user at time t
ShouldAnalyzeUser(user_context, t) ==
  IF Len(user_context.messages) < cfg.min_messages_for_analysis THEN FALSE
  ELSE IF t - user_context.last_activity > QuietMinutes THEN TRUE
  ELSE IF Len(user_context.messages) >= 3 THEN TRUE
  ELSE FALSE

\* A cool-down check that takes context_window_hours as a number of minutes
WasRecentlyAnalyzedMinutes(pl, user_id, t) ==
  IF user_id \in DOMAIN pl
  THEN t - pl[user_id] < cfg.context_window_hours
  ELSE FALSE

\* _was_recently_analyzed at time t
WasRecentlyAnalyzed(pl, user_id, t) ==
  IF user_id \in DOMAIN pl
  THEN t - pl[user_id] < HoursToMinutes(cfg.context_window_hours)
  ELSE FALSE

\* The result of the except branch of _parse_ai_response
BaseResult ==
  [is_lead |-> FALSE, confidence_score |-> 0, lead_quality |-> "not_lead",
   urgency_level |-> "none"]

\* A parser whose missing is_lead counts as a lead
ParseAIResponseLeadByDefault(resp) ==
  IF ~resp.json \/ "confidence_score" \in resp.invalid
  THEN [BaseResult EXCEPT !.is_lead = TRUE]
  ELSE [is_lead |-> Get(resp.data, "is_lead", TRUE),
        confidence_score |->
          Max(0, Min(100, Get(resp.data, "confidence_score", 0))),
        lead_quality |-> Get(resp.data, "lead_quality", "not_lead"),
        urgency_level |-> Get(resp.data, "urgency_level", "none")]

\* _parse_ai_response: no JSON object, or a confidence_score that int()
\* rejects, raises inside the try and gives the except branch's result.
ParseAIResponse(resp) ==
  IF ~resp.json \/ "confidence_score" \in resp.invalid THEN BaseResult
  ELSE [is_lead |-> Get(resp.data, "is_lead", FALSE),
        confidence_score |->
          Max(0, Min(100, Get(resp.data, "confidence_score", 0))),
        lead_quality |-> Get(resp.data, "lead_quality", "not_lead"),
        urgency_level |-> Get(resp.data, "urgency_level", "none")]

\* The analysis cache is a dict: a sequence of entries in insertion order.
CacheKeys(cache) == {cache[i].key : i \in 1..Len(cache)}
CacheGet(cache, key) ==
  LET i == CHOOSE j \in 1..Len(cache) : cache[j].key = key IN cache[i].value
CacheSet(cache, key, value) ==
  IF key \in CacheKeys(cache)
  THEN [i \in 1..Len(cache) |->
          IF cache[i].key = key THEN [key |-> key, value |-> value] ELSE cache[i]]
  ELSE Append(cache, [key |-> key, value |-> value])

\* A store that trims the cache before the insert instead of after it
CacheStoreTrimBeforeInsert(cache, key, value) ==
  LET trimmed == IF Len(cache) > CacheCap
                 THEN PySliceFrom(cache, Len(PySliceTo(cache, CacheTrim)))
                 ELSE cache
  IN  CacheSet(trimmed, key, value)

\* A store that drops the newest entries when the cache is over its cap
CacheStoreDropsNewest(cache, key, value) ==
  LET stored == CacheSet(cache, key, value)
  IN  IF Len(stored) > CacheCap
      THEN PySliceTo(stored, Len(stored) - CacheTrim)
      ELSE stored

\* Lines 259-267: store a parsed result and bound the cache.
CacheStore(cache, key, value) ==
  LET stored == CacheSet(cache, key, value)
  IN  IF Len(stored) > CacheCap
      THEN PySliceFrom(stored, Len(PySliceTo(stored, CacheTrim)))
      ELSE stored

\* Lines 228-229: hash() is taken as injective on the joined text.
MessageTexts(messages) == [i \in 1..Len(messages) |-> messages[i].text]
CacheKeyOf(user_context) ==
  <<user_context.user_id,
    Join(BarSep, MessageTexts(PySliceFrom(user_context.messages,
                                          -FingerprintMessages)))>>

\* An evaluation that also caches the neutral result it falls back to when
\* the classifier times out or raises
AnalyzeUserContextCachingFailures(cache, user_context, remote) ==
  LET cache_key == CacheKeyOf(user_context)
      analysis_result == IF remote.outcome = "ok"
                         THEN ParseAIResponse(remote.response)
                         ELSE BaseResult
  IN  IF ~remote.avail
      THEN [result |-> None, cache |-> cache, path |-> "unavailable"]
      ELSE IF cache_key \in CacheKeys(cache)
      THEN [result |-> Some(CacheGet(cache, cache_key)), cache |-> cache,
            path |-> "hit"]
      ELSE [result |-> Some(analysis_result),
            cache |-> CacheSet(cache, cache_key, analysis_result),
            path |-> remote.outcome]

\* _analyze_user_context: the result it returns, the cache it leaves and the
\* path it took.
AnalyzeUserContext(cache, user_context, remote) ==
  LET cache_key == CacheKeyOf(user_context)
      analysis_result == ParseAIResponse(remote.response)
  IN  IF ~remote.avail
      THEN [result |-> None, cache |-> cache, path |-> "unavailable"]
      ELSE IF cache_key \in CacheKeys(cache)
      THEN [result |-> Some(CacheGet(cache, cache_key)), cache |-> cache,
            path |-> "hit"]
      ELSE IF remote.outcome = "ok"
      THEN [result |-> Some(analysis_result),
            cache |-> CacheStore(cache, cache_key, analysis_result),
            path |-> "ok"]
      ELSE [result |-> None, cache |-> cache, path |-> remote.outcome]

\* The Lead row built at lines 413-431, and the time the store wrote it.
LeadOf(user_context, analysis) ==
  [telegram_id |-> user_context.user_id,
   source_channel |-> IF user_context.channel_info.title # ""
                      THEN user_context.channel_info.title
                      ELSE ToString(user_context.channel_info.id),
   interest_score |-> analysis.confidence_score,
   message_text |-> Join(BarSep, MessageTexts(user_context.messages)),
   message_date |-> user_context.last_activity]
StoredLead(lead, t) == [lead |-> lead, created_at |-> t]

\* d[k] = v
DictSet(d, k, v) == [x \in DOMAIN d \cup {k} |-> IF x = k THEN v ELSE d[x]]

(***************************************************************************)
(* The handlers                                                            *)
(***************************************************************************)
NoUpdate == [user |-> NoUser, chat |-> Chat1, message_id |-> 0, text |-> NoText]

\* The record of a handler call that did nothing.
EvNone ==
  [op |-> "none", update |-> NoUpdate, redelivery |-> FALSE, admitted |-> FALSE,
   recorded |-> FALSE, start |-> 0, evicted |-> {}, ready |-> FALSE,
   recent |-> FALSE, evaluated |-> FALSE, path |-> "none", result |-> None,
   accepted |-> FALSE, lead_created |-> FALSE, stats |-> None,
   scorer |-> "none", score |-> None, notified |-> FALSE, failures |-> {},
   raised |-> FALSE]

\* A handler without its try/except: what escapes the body reaches the caller
ExceptExceptionReraises(escaped) == escaped

\* The `except Exception` that closes both process_message bodies: whatever
\* escapes the body is logged and the call returns, so nothing is raised.
ExceptException(escaped) == FALSE

\* Lines 88-121 of process_message at time t0: admission, the context update,
\* the readiness check and the cool-down check.
AIAdmit(upd, t0) ==
  LET has_input == upd.user # NoUser /\ upd.text # NoText /\ upd.text # <<>>
      admitted == /\ cfg.enabled
                  /\ has_input
                  /\ IsChannelMonitored(upd.chat.id, upd.chat.username)
  IN  IF ~admitted
      THEN [admitted |-> FALSE, ctxs |-> user_contexts, ready |-> FALSE,
            recent |-> FALSE, evaluated |-> FALSE]
      ELSE LET ctxs1 == UpdateUserContext(user_contexts, upd, t0)
               ready == /\ upd.user \in DOMAIN ctxs1
                        /\ ShouldAnalyzeUser(ctxs1[upd.user], t0)
               recent == ready /\ WasRecentlyAnalyzed(processed_leads, upd.user, t0)
           IN  [admitted |-> TRUE, ctxs |-> ctxs1, ready |-> ready,
                recent |-> recent, evaluated |-> ready /\ ~recent]

\* An acceptance test that relies on the score alone
AcceptsOnScoreAlone(result) ==
  /\ result # None
  /\ result[1].confidence_score >= cfg.min_confidence_score

\* Line 126
Accepts(result) ==
  /\ result # None
  /\ result[1].is_lead
  /\ result[1].confidence_score >= cfg.min_confidence_score

\* Lines 134-135: the leads count handed to update_channel_stats
StatsCount(result) == IF result # None /\ result[1].is_lead THEN 1 ELSE 0

\* The history of recorded messages after update upd left the contexts ctxs1.
ArrivalsAfter(upd, admitted, ctxs1) ==
  IF admitted
  THEN [u \in Users |->
          IF u \notin DOMAIN ctxs1 THEN <<>>
          ELSE IF u # upd.user THEN arrivals[u]
          ELSE Append(IF u \in DOMAIN user_contexts THEN arrivals[u] ELSE <<>>,
                      [text |-> upd.text, message_id |-> upd.message_id])]
  ELSE arrivals

RememberLeadOnlyIfCreated(remembered, user_id, created, t) ==
  IF created THEN DictSet(remembered, user_id, t) ELSE remembered

\* Line 131: _create_lead_from_analysis catches what create_lead and the
\* notification raise, so the entry is written whether or not the row was.
RememberLead(remembered, user_id, created, t) ==
  DictSet(remembered, user_id, t)

\* A parser that starts the cool-down after every evaluation
ProcessedLeadsAfterAnyEvaluation(remembered, user_id, accept, created, t) ==
  RememberLead(remembered, user_id, created, t)

\* Lines 126-131: the entry is written inside the `if` of an accepted result.
ProcessedLeadsAfter(remembered, user_id, accept, created, t) ==
  IF accept THEN RememberLead(remembered, user_id, created, t) ELSE remembered

\* What process_message has done when it returns: pre is the outcome of lines
\* 88-121 and an of _analyze_user_context; create_lead returned at tc (created
\* says whether it wrote the row), failed names the awaited calls that failed,
\* each caught where it was made, and line 131 ran at t2.
AIReturn(upd, redelivery, pre, an, accept, created, failed, tc, t2) ==
  /\ t2 <= MaxNow
  /\ ndeliv' = ndeliv + 1
  /\ now' = t2
  /\ user_contexts' = pre.ctxs
  /\ analysis_cache' = an.cache
  /\ processed_leads' = IF pre.evaluated
                        THEN ProcessedLeadsAfter(processed_leads, upd.user,
                                                 accept, created, t2)
                        ELSE processed_leads
  /\ accepted' = IF accept
                 THEN [accepted EXCEPT ![upd.user] = Append(@, t2)]
                 ELSE accepted
  /\ arrivals' = ArrivalsAfter(upd, pre.admitted, pre.ctxs)
  /\ leads' = IF created
              THEN Append(leads,
                          StoredLead(LeadOf(pre.ctxs[upd.user], an.result[1]), tc))
              ELSE leads
  /\ ev' = [op |-> "process_message", update |-> upd,
            redelivery |-> redelivery, admitted |-> pre.admitted,
            recorded |-> pre.admitted, start |-> now,
            evicted |-> IF pre.admitted
                        THEN (DOMAIN user_contexts \cup {upd.user})
                               \ DOMAIN pre.ctxs
                        ELSE {},
            ready |-> pre.ready, recent |-> pre.recent,
            evaluated |-> pre.evaluated,
            path |-> an.path, result |-> an.result, accepted |-> accept,
            lead_created |-> created,
            stats |-> IF pre.evaluated THEN Some(StatsCount(an.result))
                      ELSE None,
            scorer |-> IF an.path = "ok" THEN "remote" ELSE "none",
            score |-> IF an.result # None
                      THEN Some(an.result[1].confidence_score) ELSE None,
            notified |-> created /\ "notify" \notin failed,
            failures |-> failed,
            raised |-> ExceptException(FALSE)]
  /\ evaluated_users' = IF pre.evaluated THEN evaluated_users \cup {upd.user}
                         ELSE evaluated_users
  /\ UNCHANGED <<cfg, tasks, channel_vars>>

Elapse == {0, TickMinutes}

\* AIContextParser.process_message, run to completion.  remote is what the
\* classifier does if it is called, create_ok whether create_lead succeeds,
\* notify_ok whether send_message does, and f1 holds "stats" when
\* update_channel_stats fails; d1, d2 and d3 are the times spent awaiting the classifier, the lead
\* persistence and the notification of the admins.
AIProcessMessage(upd, redelivery) ==
  \E pre \in {AIAdmit(upd, now)} :
    IF ~pre.evaluated
    THEN AIReturn(upd, redelivery, pre,
                  [result |-> None, cache |-> analysis_cache, path |-> "none"],
                  FALSE, FALSE, {}, now, now)
    ELSE \E remote \in Remotes :
         \E an \in {AnalyzeUserContext(analysis_cache, pre.ctxs[upd.user], remote)} :
         \E d1 \in IF an.path \in {"ok", "timeout", "error"} THEN Elapse ELSE {0} :
         \E f1 \in {(IF an.path \in {"unavailable", "timeout", "error"}
                      THEN {"remote"} ELSE {}) \cup f : f \in {{}, {"stats"}}} :
           IF ~Accepts(an.result)
           THEN AIReturn(upd, redelivery, pre, an, FALSE, FALSE, f1,
                         now + d1, now + d1)
           ELSE \E create_ok \in BOOLEAN, d2 \in Elapse :
                \E d3 \in IF create_ok THEN Elapse ELSE {0} :
                \E notify_ok \in IF create_ok THEN BOOLEAN ELSE {TRUE} :
                  AIReturn(upd, redelivery, pre, an, TRUE, create_ok,
                           f1 \cup (IF create_ok THEN {} ELSE {"create_lead"})
                              \cup (IF notify_ok THEN {} ELSE {"notify"}),
                           now + d1 + d2, now + d1 + d2 + d3)

\* The updates the transport can hand over: a new message, whose id Telegram
\* has not used before, or the last update once more.
FreshUpdates ==
  {[user |-> u, chat |-> Chat1, message_id |-> ndeliv + 1, text |-> TextCrm] :
     u \in Users \cup {NoUser}}
  \cup {[user |-> 1, chat |-> Chat2, message_id |-> ndeliv + 1, text |-> TextHi]}
  \cup {[user |-> 1, chat |-> Chat1, message_id |-> ndeliv + 1, text |-> NoText]}

Deliver ==
  /\ ndeliv < MaxDeliveries
  /\ \E upd \in FreshUpdates : AIProcessMessage(upd, FALSE)

Redeliver ==
  /\ ndeliv < MaxDeliveries
  /\ ev.op = "process_message"
  /\ AIProcessMessage(ev.update, TRUE)

\* Time passes between two steps.
Tick ==
  /\ now + TickMinutes <= MaxNow
  /\ now' = now + TickMinutes
  /\ UNCHANGED <<cfg, user_contexts, analysis_cache, processed_leads, leads,
                 accepted, arrivals, evaluated_users, ndeliv, ev, tasks,
                 channel_vars>>

IdleTask ==
  [pc |-> "idle", user |-> NoUser, key |-> <<>>, held |-> None,
   result |-> None, lead |-> None]

\* AIContextParser.__init__
Init ==
  /\ cfg \in Configs
  /\ now = 0
  /\ user_contexts = <<>>
  /\ analysis_cache = <<>>
  /\ processed_leads = <<>>
  /\ leads = <<>>
  /\ accepted = [u \in Users |-> <<>>]
  /\ arrivals = [u \in Users |-> <<>>]
  /\ evaluated_users = {}
  /\ processed_messages = {}
  /\ recent_leads_cache = <<>>
  /\ ndeliv = 0
  /\ ev = EvNone
  /\ tasks = [i \in 1..MaxTasks |-> IdleTask]

Next == Deliver \/ Redeliver \/ Tick

Spec == Init /\ [][Next]_vars

(***************************************************************************)
(* process_message as a coroutine: a call runs until it awaits the remote  *)
(* classifier, create_lead, the notification or update_channel_stats, and  *)
(* other calls run while it is suspended.                                  *)
(***************************************************************************)
\* The UserContext object a suspended call holds: the one in the dict, or the
\* object a sweep has removed from the dict since.
HeldContext(task) ==
  IF task.held # None THEN task.held[1] ELSE user_contexts[task.user]

\* A sweep that leaves ctxs1 removes contexts from the dict; the calls that
\* hold one keep the object.
HoldEvicted(ctxs1) ==
  [i \in DOMAIN tasks |->
     IF /\ tasks[i].pc # "idle"
        /\ tasks[i].held = None
        /\ tasks[i].user \notin DOMAIN ctxs1
     THEN [tasks[i] EXCEPT !.held = Some(user_contexts[tasks[i].user])]
     ELSE tasks[i]]

\* Lines 126-135 up to the next await: the call goes on to create_lead with
\* the Lead row it has built, or to update_channel_stats.
TaskAfterAnalysis(task, result, user_context) ==
  IF Accepts(result)
  THEN [task EXCEPT !.pc = "create_lead", !.result = result,
                    !.lead = Some(LeadOf(user_context, result[1]))]
  ELSE [task EXCEPT !.pc = "stats", !.result = result]

\* A call starts and runs lines 88-121 and _analyze_user_context up to its
\* first await.
IBegin(i, upd) ==
  /\ tasks[i].pc = "idle"
  /\ \A j \in 1..(i - 1) : tasks[j].pc # "idle"
  /\ ndeliv < MaxDeliveries
  /\ \E pre \in {AIAdmit(upd, now)} :
       /\ ndeliv' = ndeliv + 1
       /\ user_contexts' = pre.ctxs
       /\ arrivals' = ArrivalsAfter(upd, pre.admitted, pre.ctxs)
       /\ evaluated_users' = IF pre.evaluated
                              THEN evaluated_users \cup {upd.user}
                              ELSE evaluated_users
       /\ IF ~pre.evaluated
          THEN tasks' = HoldEvicted(pre.ctxs)
          ELSE \E avail \in BOOLEAN :
               \E started \in {[IdleTask EXCEPT
                                  !.user = upd.user,
                                  !.key = CacheKeyOf(pre.ctxs[upd.user])]} :
                 tasks' =
                   [HoldEvicted(pre.ctxs) EXCEPT ![i] =
                      IF ~avail
                      THEN TaskAfterAnalysis(started, None, pre.ctxs[upd.user])
                      ELSE IF started.key \in CacheKeys(analysis_cache)
                      THEN TaskAfterAnalysis(
                             started,
                             Some(CacheGet(analysis_cache, started.key)),
                             pre.ctxs[upd.user])
                      ELSE [started EXCEPT !.pc = "remote"]]
  /\ UNCHANGED <<cfg, now, analysis_cache, processed_leads, leads, accepted, ev,
                 channel_vars>>

\* The awaited classifier call returns, times out or raises: lines 256-280.
IRemoteReturn(i) ==
  /\ tasks[i].pc = "remote"
  /\ \E remote \in {r \in Remotes : r.avail} :
       IF remote.outcome = "ok"
       THEN \E analysis_result \in {ParseAIResponse(remote.response)} :
              /\ analysis_cache' =
                   CacheStore(analysis_cache, tasks[i].key, analysis_result)
              /\ tasks' = [tasks EXCEPT ![i] =
                             TaskAfterAnalysis(@, Some(analysis_result),
                                               HeldContext(@))]
       ELSE /\ analysis_cache' = analysis_cache
            /\ tasks' = [tasks EXCEPT ![i] =
                           TaskAfterAnalysis(@, None, HeldContext(@))]
  /\ UNCHANGED <<cfg, now, user_contexts, processed_leads, leads, accepted,
                 arrivals, evaluated_users, ndeliv, ev, channel_vars>>

\* Line 131
IRemember(i) ==
  /\ processed_leads' = DictSet(processed_leads, tasks[i].user, now)
  /\ accepted' = [accepted EXCEPT ![tasks[i].user] = Append(@, now)]
  /\ tasks' = [tasks EXCEPT ![i].pc = "stats"]

\* The awaited create_lead returns or raises: lines 434-445.
ICreateLeadReturn(i) ==
  /\ tasks[i].pc = "create_lead"
  /\ \/ /\ leads' = Append(leads, StoredLead(tasks[i].lead[1], now))
        /\ tasks' = [tasks EXCEPT ![i].pc = "notify"]
        /\ UNCHANGED <<processed_leads, accepted>>
     \/ /\ leads' = leads
        /\ IRemember(i)
  /\ UNCHANGED <<cfg, now, user_contexts, analysis_cache, arrivals,
                 evaluated_users, ndeliv, ev, channel_vars>>

\* The awaited notification of the admins is over.
INotifyReturn(i) ==
  /\ tasks[i].pc = "notify"
  /\ IRemember(i)
  /\ UNCHANGED <<cfg, now, user_contexts, analysis_cache, leads, arrivals,
                 evaluated_users, ndeliv, ev, channel_vars>>

\* The awaited update_channel_stats is over and the call returns.
IStatsReturn(i) ==
  /\ tasks[i].pc = "stats"
  /\ tasks' = [tasks EXCEPT ![i] = IdleTask]
  /\ UNCHANGED <<cfg, now, user_contexts, analysis_cache, processed_leads,
                 leads, accepted, arrivals, evaluated_users, ndeliv, ev,
                 channel_vars>>

\* The calls that overlap are calls for messages of the users in chat 1.
OverlappingUpdates == {upd \in FreshUpdates : upd.user # NoUser /\ upd.text = TextCrm}

Begin == \E i \in 1..MaxTasks, upd \in OverlappingUpdates : IBegin(i, upd)
RemoteReturn == \E i \in 1..MaxTasks : IRemoteReturn(i)
CreateLeadReturn == \E i \in 1..MaxTasks : ICreateLeadReturn(i)
NotifyReturn == \E i \in 1..MaxTasks : INotifyReturn(i)
StatsReturn == \E i \in 1..MaxTasks : IStatsReturn(i)

InitInterleaved == Init /\ cfg = CfgBase

NextInterleaved ==
  \/ Begin
  \/ RemoteReturn
  \/ CreateLeadReturn
  \/ NotifyReturn
  \/ StatsReturn
  \/ Tick

SpecInterleaved == InitInterleaved /\ [][NextInterleaved]_vars

(***************************************************************************)
(* ChannelParser._simple_lead_analysis                                     *)
(***************************************************************************)
\* str.lower() of a code point: Latin A-Z, Cyrillic U+0410-U+042F and
\* U+0400-U+040F have lower-case forms; every other code point the inputs
\* are written with is its own lower case.
LowerChar(c) ==
  IF (c >= 65 /\ c <= 90) \/ (c >= 1040 /\ c <= 1071) THEN c + 32
  ELSE IF c >= 1024 /\ c <= 1039 THEN c + 80
  ELSE c
Lower(text) == [i \in 1..Len(text) |-> LowerChar(text[i])]

\* word in text
Contains(text, word) ==
  \E i \in 0..(Len(text) - Len(word)) : SubSeq(text, i + 1, i + Len(word)) = word

\* The first-match loops of lines 227-255 and the any() of line 259
AnyIn(words, text) == \E i \in 1..Len(words) : Contains(text, words[i])

\* [\w\s] under re.UNICODE: letters, digits, the underscore and white space
IsWordOrSpace(c) ==
  \/ c >= 48 /\ c <= 57
  \/ c >= 65 /\ c <= 90
  \/ c >= 97 /\ c <= 122
  \/ c = 95
  \/ c >= 1024 /\ c <= 1119
  \/ c >= 9 /\ c <= 13
  \/ c = 32

\* re.sub(r'[^\w\s]', '', text)
StripSymbols(text) == SelectSeq(text, IsWordOrSpace)

\* crm_words: 'crm', 'црм', 'customer relationship', 'клиентская база', ...
CrmWords ==
  <<<<99, 114, 109>>,
     <<1094, 1088, 1084>>,
     <<99, 117, 115, 116, 111, 109, 101, 114, 32, 114, 101, 108, 97, 116, 105, 111, 110, 115, 104, 105, 112>>,
     <<1082, 1083, 1080, 1077, 1085, 1090, 1089, 1082, 1072, 1103, 32, 1073, 1072, 1079, 1072>>,
     <<1091, 1087, 1088, 1072, 1074, 1083, 1077, 1085, 1080, 1077, 32, 1082, 1083, 1080, 1077, 1085, 1090, 1072, 1084, 1080>>,
     <<1072, 1074, 1090, 1086, 1084, 1072, 1090, 1080, 1079, 1072, 1094, 1080, 1103, 32, 1087, 1088, 1086, 1076, 1072, 1078>>,
     <<1089, 1080, 1089, 1090, 1077, 1084, 1072, 32, 1087, 1088, 1086, 1076, 1072, 1078>>,
     <<1087, 1088, 1086, 1076, 1072, 1078, 1085, 1072, 1103, 32, 1074, 1086, 1088, 1086, 1085, 1082, 1072>>,
     <<115, 97, 108, 101, 115, 32, 102, 117, 110, 110, 101, 108>>,
     <<1083, 1080, 1076, 1086, 1075, 1077, 1085, 1077, 1088, 1072, 1094, 1080, 1103>>,
     <<108, 101, 97, 100, 32, 103, 101, 110, 101, 114, 97, 116, 105, 111, 110>> >>
\* bot_words: 'telegram bot', 'телеграм бот', 'чат бот', 'chatbot', ...
BotWords ==
  <<<<116, 101, 108, 101, 103, 114, 97, 109, 32, 98, 111, 116>>,
     <<1090, 1077, 1083, 1077, 1075, 1088, 1072, 1084, 32, 1073, 1086, 1090>>,
     <<1095, 1072, 1090, 32, 1073, 1086, 1090>>,
     <<99, 104, 97, 116, 98, 111, 116>>,
     <<1073, 1086, 1090, 32, 1076, 1083, 1103, 32, 1087, 1088, 1086, 1076, 1072, 1078>>,
     <<1072, 1074, 1090, 1086, 1086, 1090, 1074, 1077, 1090, 1095, 1080, 1082>>,
     <<1072, 1074, 1090, 1086, 1084, 1072, 1090, 1080, 1095, 1077, 1089, 1082, 1080, 1077, 32, 1086, 1090, 1074, 1077, 1090, 1099>>,
     <<1086, 1073, 1088, 1072, 1073, 1086, 1090, 1082, 1072, 32, 1079, 1072, 1103, 1074, 1086, 1082>>,
     <<1087, 1088, 1080, 1077, 1084, 32, 1079, 1072, 1103, 1074, 1086, 1082>>,
     <<116, 101, 108, 101, 103, 114, 97, 109, 32, 97, 112, 105>>,
     <<119, 101, 98, 104, 111, 111, 107>> >>
\* business_problems: 'не успеваем обрабатывать', 'много заявок', 'теряем клиентов', 'нужна система', ...
BusinessProblems ==
  <<<<1085, 1077, 32, 1091, 1089, 1087, 1077, 1074, 1072, 1077, 1084, 32, 1086, 1073, 1088, 1072, 1073, 1072, 1090, 1099, 1074, 1072, 1090, 1100>>,
     <<1084, 1085, 1086, 1075, 1086, 32, 1079, 1072, 1103, 1074, 1086, 1082>>,
     <<1090, 1077, 1088, 1103, 1077, 1084, 32, 1082, 1083, 1080, 1077, 1085, 1090, 1086, 1074>>,
     <<1085, 1091, 1078, 1085, 1072, 32, 1089, 1080, 1089, 1090, 1077, 1084, 1072>>,
     <<1080, 1097, 1091, 32, 1088, 1077, 1096, 1077, 1085, 1080, 1077>>,
     <<1082, 1072, 1082, 32, 1072, 1074, 1090, 1086, 1084, 1072, 1090, 1080, 1079, 1080, 1088, 1086, 1074, 1072, 1090, 1100>>,
     <<1101, 1092, 1092, 1077, 1082, 1090, 1080, 1074, 1085, 1086, 1089, 1090, 1100, 32, 1087, 1088, 1086, 1076, 1072, 1078>>,
     <<1091, 1074, 1077, 1083, 1080, 1095, 1080, 1090, 1100, 32, 1082, 1086, 1085, 1074, 1077, 1088, 1089, 1080, 1102>>,
     <<1073, 1086, 1083, 1100, 1096, 1077, 32, 1087, 1088, 1086, 1076, 1072, 1078>>,
     <<1072, 1074, 1090, 1086, 1084, 1072, 1090, 1080, 1095, 1077, 1089, 1082, 1080, 1081, 32, 1086, 1090, 1074, 1077, 1090>>,
     <<1086, 1073, 1088, 1072, 1073, 1086, 1090, 1082, 1072, 32, 1089, 1086, 1086, 1073, 1097, 1077, 1085, 1080, 1081>>,
     <<1091, 1095, 1077, 1090, 32, 1082, 1083, 1080, 1077, 1085, 1090, 1086, 1074>> >>
\* buying_intent: 'ищу', 'нужно', 'требуется', 'хочу заказать', ...
BuyingIntent ==
  <<<<1080, 1097, 1091>>,
     <<1085, 1091, 1078, 1085, 1086>>,
     <<1090, 1088, 1077, 1073, 1091, 1077, 1090, 1089, 1103>>,
     <<1093, 1086, 1095, 1091, 32, 1079, 1072, 1082, 1072, 1079, 1072, 1090, 1100>>,
     <<1087, 1083, 1072, 1085, 1080, 1088, 1091, 1102, 32, 1082, 1091, 1087, 1080, 1090, 1100>>,
     <<1088, 1072, 1089, 1089, 1084, 1072, 1090, 1088, 1080, 1074, 1072, 1102, 32, 1087, 1086, 1082, 1091, 1087, 1082, 1091>>,
     <<1080, 1085, 1090, 1077, 1088, 1077, 1089, 1091, 1077, 1090, 32, 1089, 1090, 1086, 1080, 1084, 1086, 1089, 1090, 1100>>,
     <<1073, 1102, 1076, 1078, 1077, 1090, 32, 1077, 1089, 1090, 1100>>,
     <<1075, 1086, 1090, 1086, 1074, 32, 1087, 1083, 1072, 1090, 1080, 1090, 1100>>,
     <<1085, 1091, 1078, 1085, 1072, 32, 1082, 1086, 1085, 1089, 1091, 1083, 1100, 1090, 1072, 1094, 1080, 1103>>,
     <<1075, 1076, 1077, 32, 1079, 1072, 1082, 1072, 1079, 1072, 1090, 1100>>,
     <<1082, 1090, 1086, 32, 1076, 1077, 1083, 1072, 1077, 1090>>,
     <<1075, 1086, 1090, 1086, 1074, 32, 1082, 1091, 1087, 1080, 1090, 1100>>,
     <<1075, 1086, 1090, 1086, 1074, 32, 1079, 1072, 1082, 1072, 1079, 1072, 1090, 1100>> >>
\* tech_requests: 'api интеграция', 'интеграция с', 'подключить к', 'разработка под заказ', ...
TechRequests ==
  <<<<97, 112, 105, 32, 1080, 1085, 1090, 1077, 1075, 1088, 1072, 1094, 1080, 1103>>,
     <<1080, 1085, 1090, 1077, 1075, 1088, 1072, 1094, 1080, 1103, 32, 1089>>,
     <<1087, 1086, 1076, 1082, 1083, 1102, 1095, 1080, 1090, 1100, 32, 1082>>,
     <<1088, 1072, 1079, 1088, 1072, 1073, 1086, 1090, 1082, 1072, 32, 1087, 1086, 1076, 32, 1079, 1072, 1082, 1072, 1079>>,
     <<1082, 1072, 1089, 1090, 1086, 1084, 1085, 1072, 1103, 32, 1088, 1072, 1079, 1088, 1072, 1073, 1086, 1090, 1082, 1072>>,
     <<1080, 1085, 1076, 1080, 1074, 1080, 1076, 1091, 1072, 1083, 1100, 1085, 1086, 1077, 32, 1088, 1077, 1096, 1077, 1085, 1080, 1077>>,
     <<1090, 1077, 1093, 1085, 1080, 1095, 1077, 1089, 1082, 1086, 1077, 32, 1079, 1072, 1076, 1072, 1085, 1080, 1077>>,
     <<1085, 1072, 1089, 1090, 1088, 1086, 1081, 1082, 1072, 32, 1089, 1080, 1089, 1090, 1077, 1084, 1099>>,
     <<1074, 1085, 1077, 1076, 1088, 1077, 1085, 1080, 1077, 32, 99, 114, 109>> >>
\* competitors: 'bitrix24', 'amocrm', 'megaplan', 'pipedrive', ...
Competitors ==
  <<<<98, 105, 116, 114, 105, 120, 50, 52>>,
     <<97, 109, 111, 99, 114, 109>>,
     <<109, 101, 103, 97, 112, 108, 97, 110>>,
     <<112, 105, 112, 101, 100, 114, 105, 118, 101>>,
     <<115, 97, 108, 101, 115, 102, 111, 114, 99, 101>>,
     <<1085, 1077, 32, 1091, 1089, 1090, 1088, 1072, 1080, 1074, 1072, 1077, 1090, 32, 1090, 1077, 1082, 1091, 1097, 1072, 1103, 32, 1089, 1080, 1089, 1090, 1077, 1084, 1072>>,
     <<1080, 1097, 1091, 32, 1072, 1083, 1100, 1090, 1077, 1088, 1085, 1072, 1090, 1080, 1074, 1091>>,
     <<1089, 1084, 1077, 1085, 1072, 32, 99, 114, 109>> >>
\* question_words: 'как', 'что', 'где', 'кто может', ...
QuestionWords ==
  <<<<1082, 1072, 1082>>,
     <<1095, 1090, 1086>>,
     <<1075, 1076, 1077>>,
     <<1082, 1090, 1086, 32, 1084, 1086, 1078, 1077, 1090>>,
     <<1082, 1090, 1086, 32, 1076, 1077, 1083, 1072, 1077, 1090>>,
     <<1087, 1086, 1089, 1086, 1074, 1077, 1090, 1091, 1081, 1090, 1077>>,
     <<63>> >>
\* irrelevant: 'продаю', 'куплю авто', 'недвижимость', 'знакомства', ...
Irrelevant ==
  <<<<1087, 1088, 1086, 1076, 1072, 1102>>,
     <<1082, 1091, 1087, 1083, 1102, 32, 1072, 1074, 1090, 1086>>,
     <<1085, 1077, 1076, 1074, 1080, 1078, 1080, 1084, 1086, 1089, 1090, 1100>>,
     <<1079, 1085, 1072, 1082, 1086, 1084, 1089, 1090, 1074, 1072>>,
     <<1088, 1072, 1073, 1086, 1090, 1072>>,
     <<1074, 1072, 1082, 1072, 1085, 1089, 1080, 1103>>,
     <<1088, 1077, 1079, 1102, 1084, 1077>>,
     <<1089, 1087, 1072, 1084>>,
     <<1088, 1077, 1082, 1083, 1072, 1084, 1072>>,
     <<43>>,
     <<1094, 1077, 1085, 1072, 32, 1079, 1072>> >>

\* A score whose short-message penalty applies below 30 characters
RawScoreShortBelow30(message_text) ==
  LET message_lower == Lower(message_text)
      n == Len(message_text)
  IN  (IF AnyIn(CrmWords, message_lower) THEN 50 ELSE 0)
      + (IF AnyIn(BotWords, message_lower) THEN 45 ELSE 0)
      + (IF AnyIn(BusinessProblems, message_lower) THEN 40 ELSE 0)
      + (IF AnyIn(BuyingIntent, message_lower) THEN 35 ELSE 0)
      + (IF AnyIn(TechRequests, message_lower) THEN 30 ELSE 0)
      + (IF AnyIn(Competitors, message_lower) THEN 25 ELSE 0)
      + (IF AnyIn(QuestionWords, message_lower) THEN 15 ELSE 0)
      + (IF n > 50 THEN 10 ELSE 0)
      + (IF n > 150 THEN 5 ELSE 0)
      - (IF AnyIn(Irrelevant, message_lower) THEN 30 ELSE 0)
      - (IF n < 30 THEN 15 ELSE 0)
      - (IF Len(StripSymbols(message_text)) < 10 THEN 20 ELSE 0)

\* Lines 226-284: the score before it is clamped
RawScore(message_text) ==
  LET message_lower == Lower(message_text)
      n == Len(message_text)
  IN  (IF AnyIn(CrmWords, message_lower) THEN 50 ELSE 0)
      + (IF AnyIn(BotWords, message_lower) THEN 45 ELSE 0)
      + (IF AnyIn(BusinessProblems, message_lower) THEN 40 ELSE 0)
      + (IF AnyIn(BuyingIntent, message_lower) THEN 35 ELSE 0)
      + (IF AnyIn(TechRequests, message_lower) THEN 30 ELSE 0)
      + (IF AnyIn(Competitors, message_lower) THEN 25 ELSE 0)
      + (IF AnyIn(QuestionWords, message_lower) THEN 15 ELSE 0)
      + (IF n > 50 THEN 10 ELSE 0)
      + (IF n > 150 THEN 5 ELSE 0)
      - (IF AnyIn(Irrelevant, message_lower) THEN 30 ELSE 0)
      - (IF n < 20 THEN 15 ELSE 0)
      - (IF Len(StripSymbols(message_text)) < 10 THEN 20 ELSE 0)

\* A scorer that returns the score without clamping it
SimpleLeadAnalysisUnclamped(message_text) ==
  IF message_text = NoText \/ message_text = <<>> THEN 0
  ELSE RawScore(message_text)

\* _simple_lead_analysis
SimpleLeadAnalysis(message_text) ==
  IF message_text = NoText \/ message_text = <<>> THEN 0
  ELSE Max(0, Min(100, RawScore(message_text)))

(***************************************************************************)
(* ChannelParser                                                           *)
(***************************************************************************)
ProcessedCap == 10000
ProcessedTrim == 5000
LeadKeyChars == 100
RecentLeadMinutes == 60
LeadExistsMinutes == 1440

\* list(self.processed_messages)[:5000] at line 73: the order of a set is
\* any order, so any ProcessedTrim keys can be the first ones.  Of these
\* outcomes the model takes the runs of ProcessedTrim consecutive message
\* ids of the chat of the new key: the lowest ids, and the highest ones,
\* which include the key just added.
OldMessages(added, message_key) ==
  {old_messages \in
     {{k \in added : k[1] = message_key[1]
                      /\ k[2] \in a..(a + ProcessedTrim - 1)} :
        a \in {1, message_key[2] - ProcessedTrim + 1}} :
     Cardinality(old_messages) = ProcessedTrim}

\* A seen-set that is never pruned
AddProcessedNeverPruned(pm, message_key) == {pm \cup {message_key}}

\* Lines 68-75: the key is added, and above the cap the first ProcessedTrim
\* keys of list(set) are discarded.
AddProcessed(pm, message_key) ==
  LET added == pm \cup {message_key}
  IN  IF Cardinality(added) > ProcessedCap
      THEN {added \ old_messages :
              old_messages \in OldMessages(added, message_key)}
      ELSE {added}

\* Lines 79-83
ChannelIdentifier(chat) ==
  IF chat.username # "" THEN "@" \o chat.username ELSE ToString(chat.id)

\* Line 95: hash() is taken as injective on the first characters of the text.
LeadKey(user_id, message_text) ==
  <<user_id, PySliceTo(message_text, LeadKeyChars)>>

\* A cleanup that empties the cache of every earlier entry
CleanupLeadsCacheAnyAge(cache, t) ==
  LET expired_keys == {k \in DOMAIN cache : t - cache[k] > 0}
  IN  [k \in (DOMAIN cache) \ expired_keys |-> cache[k]]

\* _cleanup_leads_cache at time t
CleanupLeadsCache(cache, t) ==
  LET expired_keys == {k \in DOMAIN cache : t - cache[k] > RecentLeadMinutes}
  IN  [k \in (DOMAIN cache) \ expired_keys |-> cache[k]]

\* _lead_exists_fixed at time t: the query over the leads table, or False
\* when the query fails.
LeadExistsFixed(user_id, t, db_ok) ==
  /\ db_ok
  /\ \E i \in 1..Len(leads) :
       /\ leads[i].lead.telegram_id = user_id
       /\ leads[i].created_at >= t - LeadExistsMinutes

\* get_claude_client() and the outcome of analyze_potential_lead, whose code
\* is not in the repository's sources: it answers with a score.
ChannelRemotes ==
  {[avail |-> FALSE, outcome |-> "none", score |-> 0],
   [avail |-> TRUE, outcome |-> "timeout", score |-> 0],
   [avail |-> TRUE, outcome |-> "error", score |-> 0],
   [avail |-> TRUE, outcome |-> "ok", score |-> 90],
   [avail |-> TRUE, outcome |-> "ok", score |-> 10]}

\* _analyze_message
AnalyzeMessage(message_text, remote) ==
  IF remote.avail /\ remote.outcome = "ok"
  THEN [score |-> remote.score, scorer |-> "remote"]
  ELSE [score |-> SimpleLeadAnalysis(message_text), scorer |-> "heuristic"]

\* What ChannelParser.process_message has done when it returns at time t;
\* failed names what failed in the call, and of these a missing text or user
\* and create_lead escape the body.
ChannelReturn(upd, pm, cache, stored, an, stats, failed, t) ==
  /\ t <= MaxNow
  /\ ndeliv' = ndeliv + 1
  /\ now' = t
  /\ processed_messages' = pm
  /\ recent_leads_cache' = cache
  /\ leads' = stored
  /\ ev' = [EvNone EXCEPT !.op = "channel_process_message",
                          !.update = upd,
                          !.redelivery =
                             <<upd.chat.id, upd.message_id>> \in processed_messages,
                          !.start = now,
                          !.evaluated = an # None,
                          !.accepted = /\ an # None
                                       /\ an[1].score >= cfg.min_interest_score,
                          !.scorer = IF an # None THEN an[1].scorer ELSE "none",
                          !.score = IF an # None THEN Some(an[1].score) ELSE None,
                          !.lead_created = stored # leads,
                          !.stats = stats,
                          !.notified = stored # leads /\ "notify" \notin failed,
                          !.failures = failed,
                          !.raised = ExceptException(
                             failed \cap {"text", "user", "create_lead"} # {})]
  /\ UNCHANGED <<cfg, user_contexts, analysis_cache, processed_leads, accepted,
                 arrivals, evaluated_users, tasks>>

\* ChannelParser.process_message, run to completion.  remote is what the
\* classifier does and d1 the time spent awaiting it; db_ok says whether the
\* query of _lead_exists_fixed succeeds, create_ok whether create_lead does,
\* notify_ok whether send_message does, stats_ok whether update_channel_stats
\* does, and d2 is the time spent awaiting the lead persistence.
ChannelProcessMessage(upd, remote, d1) ==
  LET message_key == <<upd.chat.id, upd.message_id>>
      channel_identifier == ChannelIdentifier(upd.chat)
  IN  IF ~cfg.enabled \/ message_key \in processed_messages
      THEN ChannelReturn(upd, processed_messages, recent_leads_cache, leads,
                         None, None, {}, now)
      ELSE \E pm \in AddProcessed(processed_messages, message_key) :
        IF upd.text = NoText
        THEN \* line 85 raises on message_text[:100]
             ChannelReturn(upd, pm, recent_leads_cache, leads, None, None,
                           {"text"}, now)
        ELSE \E an \in {AnalyzeMessage(upd.text, remote)} :
             \E f1 \in {IF an.scorer = "remote" THEN {} ELSE {"remote"}} :
          IF an.score < cfg.min_interest_score
          THEN \E stats_ok \in BOOLEAN :
               ChannelReturn(upd, pm, recent_leads_cache, leads, Some(an),
                             Some(0),
                             f1 \cup (IF stats_ok THEN {} ELSE {"stats"}),
                             now + d1)
          ELSE IF upd.user = NoUser
          THEN \* line 95 raises on user.id
               ChannelReturn(upd, pm, recent_leads_cache, leads, Some(an),
                             None, f1 \cup {"user"}, now + d1)
          ELSE \E db_ok \in BOOLEAN :
          IF \/ LeadExistsFixed(upd.user, now + d1, db_ok)
             \/ LeadKey(upd.user, upd.text) \in DOMAIN recent_leads_cache
          THEN \E stats_ok \in BOOLEAN :
               ChannelReturn(upd, pm, recent_leads_cache, leads, Some(an),
                             Some(1),
                             f1 \cup (IF db_ok THEN {} ELSE {"lead_exists"})
                                \cup (IF stats_ok THEN {} ELSE {"stats"}),
                             now + d1)
          ELSE \E create_ok \in BOOLEAN, d2 \in Elapse :
               \E f2 \in {f1 \cup (IF db_ok THEN {} ELSE {"lead_exists"})} :
          IF ~create_ok
          THEN \* create_lead raises: lines 109-129 are skipped
               ChannelReturn(upd, pm, recent_leads_cache, leads, Some(an),
                             None, f2 \cup {"create_lead"}, now + d1 + d2)
          ELSE \E notify_ok \in BOOLEAN, stats_ok \in BOOLEAN :
               ChannelReturn(
                 upd, pm,
                 CleanupLeadsCache(
                   DictSet(recent_leads_cache, LeadKey(upd.user, upd.text),
                           now + d1 + d2),
                   now + d1 + d2),
                 Append(leads,
                        StoredLead([telegram_id |-> upd.user,
                                    source_channel |-> channel_identifier,
                                    interest_score |-> an.score,
                                    message_text |-> upd.text,
                                    message_date |-> now],
                                   now + d1 + d2)),
                 Some(an), Some(1),
                 f2 \cup (IF notify_ok THEN {} ELSE {"notify"})
                    \cup (IF stats_ok THEN {} ELSE {"stats"}),
                 now + d1 + d2)

\* The chunks the texts given to the scorer are made of
\* "сколько стоит ваша CRM?"
ChunkAsk ==
  <<1089, 1082, 1086, 1083, 1100, 1082, 1086, 32, 1089, 1090, 1086,
    1080, 1090, 32, 1074, 1072, 1096, 1072, 32, 67, 82, 77, 63>>
\* "CRM"
ChunkCRM ==
  <<67, 82, 77>>
\* "?"
ChunkQ ==
  <<63>>
\* "привет"
ChunkHello ==
  <<1087, 1088, 1080, 1074, 1077, 1090>>
\* "+🙂!!"
ChunkSymbols ==
  <<43, 128578, 33, 33>>
\* " Ищу Telegram Bot, интеграция с Bitrix24: много заявок... "
ChunkNeed ==
  <<32, 1048, 1097, 1091, 32, 84, 101, 108, 101, 103, 114, 97, 109, 32,
    66, 111, 116, 44, 32, 1080, 1085, 1090, 1077, 1075, 1088, 1072,
    1094, 1080, 1103, 32, 1089, 32, 66, 105, 116, 114, 105, 120, 50, 52,
    58, 32, 1084, 1085, 1086, 1075, 1086, 32, 1079, 1072, 1103, 1074,
    1086, 1082, 46, 46, 46, 32>>
\* "работа "
ChunkJob ==
  <<1088, 1072, 1073, 1086, 1090, 1072, 32>>

(***************************************************************************)
(* The heuristic scorer, called on its own and as the fallback of          *)
(* ChannelParser.process_message, on one text per behaviour                *)
(***************************************************************************)
MaxRepeat == 3
MaxHeurDeliveries == 2

Chunks ==
  <<ChunkAsk, ChunkCRM, ChunkQ, ChunkHello, ChunkSymbols, ChunkNeed, ChunkJob>>

\* chunk * k
RECURSIVE Repeat(_, _)
Repeat(chunk, k) == IF k = 0 THEN <<>> ELSE chunk \o Repeat(chunk, k - 1)

\* The inputs of the scorer: None, the empty text, a chunk up to MaxRepeat
\* times, and two chunks
HeurTexts ==
  {NoText}
  \cup {Repeat(Chunks[i], k) : i \in 1..Len(Chunks), k \in 0..MaxRepeat}
  \cup {Chunks[i] \o Chunks[j] : i, j \in 1..Len(Chunks)}

\* A direct call of _simple_lead_analysis on the text of the behaviour
HeurCall ==
  /\ ev' = [EvNone EXCEPT !.op = "simple_lead_analysis",
                          !.update = [NoUpdate EXCEPT !.text = ev.update.text],
                          !.scorer = "heuristic",
                          !.score = Some(SimpleLeadAnalysis(ev.update.text))]
  /\ UNCHANGED <<cfg, now, user_contexts, analysis_cache, processed_leads, leads,
                 accepted, arrivals, evaluated_users, ndeliv, tasks,
                 channel_vars>>

\* The text arrives from user 1 in chat 1, as a new message or as message 1
\* once more, and the classifier times out.
HeurDeliver ==
  /\ ndeliv < MaxHeurDeliveries
  /\ \E message_id \in {1, ndeliv + 1} :
     \E remote \in {r \in ChannelRemotes : r.outcome = "timeout"} :
       ChannelProcessMessage([user |-> 1, chat |-> Chat1,
                              message_id |-> message_id,
                              text |-> ev.update.text],
                             remote, 0)

\* ChannelParser.__init__, and the text of the behaviour
InitHeur ==
  /\ cfg = CfgBase
  /\ now = 0
  /\ user_contexts = <<>>
  /\ analysis_cache = <<>>
  /\ processed_leads = <<>>
  /\ leads = <<>>
  /\ accepted = [u \in Users |-> <<>>]
  /\ arrivals = [u \in Users |-> <<>>]
  /\ evaluated_users = {}
  /\ processed_messages = {}
  /\ recent_leads_cache = <<>>
  /\ ndeliv = 0
  /\ tasks = [i \in 1..MaxTasks |-> IdleTask]
  /\ ev \in {[EvNone EXCEPT !.update = [NoUpdate EXCEPT !.text = t]] :
               t \in HeurTexts}

NextHeur == HeurCall \/ HeurDeliver \/ Tick

SpecHeur == InitHeur /\ [][NextHeur]_vars

(***************************************************************************)
(* AIBot.handle_any_message in front of ChannelParser                      *)
(***************************************************************************)
\* Lines 126-135 of main.py: the dispatcher's own test of the channel list
DispatcherMonitors(chat) ==
  IF InList(ToString(chat.id), cfg.channels) THEN TRUE
  ELSE chat.username # "" /\ InList("@" \o chat.username, cfg.channels)

\* handle_any_message returns without having called the parser.
DispatchReturn(upd) ==
  /\ ndeliv' = ndeliv + 1
  /\ ev' = [EvNone EXCEPT !.op = "handle_any_message", !.update = upd,
                          !.start = now]
  /\ UNCHANGED <<cfg, now, user_contexts, analysis_cache, processed_leads, leads,
                 accepted, arrivals, evaluated_users, tasks, channel_vars>>

\* handle_any_message: lines 114-118 raise when the update has no user or no
\* text, a private chat goes to the user handler, and a group or channel
\* message goes to ChannelParser.process_message when the dispatcher finds
\* the chat monitored and parsing enabled.
HandleAnyMessage(upd, remote, d1) ==
  IF upd.user = NoUser \/ upd.text = NoText
  THEN DispatchReturn(upd)
  ELSE IF upd.chat.type = "private"
  THEN DispatchReturn(upd)
  ELSE IF /\ upd.chat.type \in {"group", "supergroup", "channel"}
          /\ DispatcherMonitors(upd.chat)
          /\ cfg.enabled
  THEN ChannelProcessMessage(upd, remote, d1)
  ELSE DispatchReturn(upd)

\* The configurations of the channel list: by id and @name, by bare name,
\* and parsing switched off.
ChannelConfigs ==
  { CfgBase,
    [CfgBase EXCEPT !.channels = <<"chan">>],
    [CfgBase EXCEPT !.enabled = FALSE] }

\* The updates Telegram hands to the dispatcher
ChannelUpdates ==
  {[user |-> u, chat |-> Chat1, message_id |-> ndeliv + 1, text |-> ChunkAsk] :
     u \in Users \cup {NoUser}}
  \cup {[user |-> 1, chat |-> Chat1, message_id |-> 1, text |-> ChunkAsk],
        [user |-> 1, chat |-> Chat2, message_id |-> ndeliv + 1, text |-> ChunkHello],
        [user |-> 1, chat |-> Chat1, message_id |-> ndeliv + 1, text |-> NoText],
        [user |-> 1, chat |-> ChatPrivate, message_id |-> ndeliv + 1,
         text |-> ChunkAsk]}

MaxChannelDeliveries == 2

ChannelDeliver ==
  /\ ndeliv < MaxChannelDeliveries
  /\ \E upd \in ChannelUpdates, remote \in ChannelRemotes :
     \E d1 \in IF remote.outcome = "timeout" THEN Elapse ELSE {0} :
       HandleAnyMessage(upd, remote, d1)

InitChannel ==
  /\ cfg \in ChannelConfigs
  /\ now = 0
  /\ user_contexts = <<>>
  /\ analysis_cache = <<>>
  /\ processed_leads = <<>>
  /\ leads = <<>>
  /\ accepted = [u \in Users |-> <<>>]
  /\ arrivals = [u \in Users |-> <<>>]
  /\ evaluated_users = {}
  /\ processed_messages = {}
  /\ recent_leads_cache = <<>>
  /\ ndeliv = 0
  /\ tasks = [i \in 1..MaxTasks |-> IdleTask]
  /\ ev = EvNone

NextChannel == ChannelDeliver \/ Tick

SpecChannel == InitChannel /\ [][NextChannel]_vars

(***************************************************************************)
(* Both parsers on the messages of user 1 in chat 1, writing to one leads  *)
(* table                                                                   *)
(***************************************************************************)
BothDeliverAI ==
  /\ ndeliv < MaxDeliveries
  /\ \E upd \in {u \in FreshUpdates :
                   u.user = 1 /\ u.chat = Chat1 /\ u.text = TextCrm} :
       AIProcessMessage(upd, FALSE)

BothDeliverChannel ==
  /\ ndeliv < MaxDeliveries
  /\ \E upd \in {u \in ChannelUpdates :
                   u.user = 1 /\ u.chat = Chat1 /\ u.text = ChunkAsk} :
     \E remote \in ChannelRemotes :
       HandleAnyMessage(upd, remote, 0)

InitBoth == InitChannel /\ cfg = CfgBase

NextBoth == BothDeliverAI \/ BothDeliverChannel \/ Tick

SpecBoth == InitBoth /\ [][NextBoth]_vars

(***************************************************************************)
(* ChannelParser on the heuristic path: the classifier times out, and two  *)
(* users send the same text or user 1 another one                          *)
(***************************************************************************)
MaxDedupDeliveries == 3

DedupUpdates ==
  {[user |-> u, chat |-> Chat1, message_id |-> ndeliv + 1, text |-> ChunkAsk] :
     u \in Users}
  \cup {[user |-> 1, chat |-> Chat1, message_id |-> ndeliv + 1,
         text |-> ChunkNeed]}

DedupDeliver ==
  /\ ndeliv < MaxDedupDeliveries
  /\ \E upd \in DedupUpdates :
     \E remote \in {r \in ChannelRemotes : r.outcome = "timeout"} :
       HandleAnyMessage(upd, remote, 0)

InitDedup == InitChannel /\ cfg = CfgBase

NextDedup == DedupDeliver \/ Tick

SpecDedup == InitDedup /\ [][NextDedup]_vars

(***************************************************************************)
(* The seen-message set at its cap: ChannelParser after ProcessedCap       *)
(* messages of chat 1 that made no lead                                    *)
(***************************************************************************)
MaxSeenDeliveries == 2

\* A new message of user 1 or 2, or the last update once more
SeenUpdates ==
  {[user |-> 1, chat |-> Chat1, message_id |-> ndeliv + 1, text |-> ChunkAsk],
   [user |-> 2, chat |-> Chat1, message_id |-> ndeliv + 1, text |-> ChunkHello]}
  \cup (IF ev.op = "channel_process_message" THEN {ev.update} ELSE {})

SeenDeliver ==
  /\ ndeliv < ProcessedCap + MaxSeenDeliveries
  /\ \E upd \in SeenUpdates :
     \E remote \in {r \in ChannelRemotes : r.outcome \in {"timeout", "ok"}} :
       HandleAnyMessage(upd, remote, 0)

InitSeen ==
  /\ cfg = CfgBase
  /\ now = 0
  /\ user_contexts = <<>>
  /\ analysis_cache = <<>>
  /\ processed_leads = <<>>
  /\ leads = <<>>
  /\ accepted = [u \in Users |-> <<>>]
  /\ arrivals = [u \in Users |-> <<>>]
  /\ evaluated_users = {}
  /\ processed_messages = {<<Chat1.id, m>> : m \in 1..ProcessedCap}
  /\ recent_leads_cache = <<>>
  /\ ndeliv = ProcessedCap
  /\ tasks = [i \in 1..MaxTasks |-> IdleTask]
  /\ ev = EvNone

NextSeen == SeenDeliver

SpecSeen == InitSeen /\ [][NextSeen]_vars

(***************************************************************************)
(* The analysis cache at its cap: evaluations of many one-message contexts *)
(***************************************************************************)
MaxCacheUsers == 1100

\* The context of user u after its first message
CacheContext(u) ==
  [user_id |-> u,
   messages |-> <<[text |-> TextCrm, message_id |-> u]>>,
   first_seen |-> 0, last_activity |-> 0, channel_info |-> Chat1]

\* force_analyze_user
ForceAnalyzeUser(user_id, remote) ==
  /\ \E an \in {IF user_id \in DOMAIN user_contexts
                THEN AnalyzeUserContext(analysis_cache, user_contexts[user_id],
                                        remote)
                ELSE [result |-> None, cache |-> analysis_cache,
                      path |-> "none"]} :
       /\ analysis_cache' = an.cache
       /\ ev' = [EvNone EXCEPT !.op = "force_analyze_user",
                               !.update = [NoUpdate EXCEPT !.user = user_id],
                               !.evaluated = an.path # "none",
                               !.path = an.path,
                               !.result = an.result]
  /\ evaluated_users' = evaluated_users
  /\ UNCHANGED <<cfg, now, user_contexts, processed_leads, leads, accepted,
                 arrivals, ndeliv, tasks, channel_vars>>

\* The users are evaluated in the order of their ids, the classifier answers
\* or times out, and the user of the oldest entry is evaluated once more.
NextCacheUsers ==
  IF analysis_cache = <<>> THEN {1}
  ELSE {analysis_cache[1].key[1]}
       \cup ({analysis_cache[Len(analysis_cache)].key[1] + 1}
               \cap (1..MaxCacheUsers))

CacheAnalyze ==
  \E user_id \in NextCacheUsers :
  \E remote \in {r \in Remotes : r.outcome = "timeout" \/ r.response = RespHot} :
    ForceAnalyzeUser(user_id, remote)

\* The parser after one message of each of the users 1..MaxCacheUsers
InitCache ==
  /\ cfg = CfgBase
  /\ now = 0
  /\ user_contexts = [u \in 1..MaxCacheUsers |-> CacheContext(u)]
  /\ analysis_cache = <<>>
  /\ processed_leads = <<>>
  /\ leads = <<>>
  /\ accepted = [u \in Users |-> <<>>]
  /\ arrivals = [u \in 1..MaxCacheUsers |-> CacheContext(u).messages]
  /\ evaluated_users = {}
  /\ processed_messages = {}
  /\ recent_leads_cache = <<>>
  /\ ndeliv = MaxCacheUsers
  /\ tasks = [i \in 1..MaxTasks |-> IdleTask]
  /\ ev = EvNone

NextCache == CacheAnalyze

SpecCache == InitCache /\ [][NextCache]_vars

(***************************************************************************)
(* Claims                                                                  *)
(***************************************************************************)
WindowMinutes == HoursToMinutes(cfg.context_window_hours)

\* The last n elements of s (all of s when it is shorter), n >= 0.
LastN(s, n) == SubSeq(s, Len(s) - Min(n, Len(s)) + 1, Len(s))

\* C1: every stored context holds at most max_context_messages messages, and
\* they are the most recent ones of those recorded, in arrival order.
C1_ContextBounded ==
  \A u \in DOMAIN user_contexts :
    /\ Len(user_contexts[u].messages) <= cfg.max_context_messages
    /\ user_contexts[u].messages = LastN(arrivals[u], cfg.max_context_messages)

\* C2: two accepted evaluations of one user are at least context_window_hours
\* apart.
C2_CooldownBetweenAccepted ==
  \A u \in Users :
    \A i, j \in 1..Len(accepted[u]) :
      i < j => accepted[u][j] - accepted[u][i] >= WindowMinutes

C2_Witness ==
  \E u \in Users : Len(accepted[u]) >= 2 /\ WindowMinutes > 0

\* C4: the second delivery of an update starts no evaluation, creates no lead
\* and updates no statistics.
C4_RedeliveryIsNoOp ==
  ev.redelivery =>
    /\ ~ev.evaluated
    /\ ~ev.lead_created
    /\ ev.stats = None

\* C6: the analysis cache changes only in an evaluation whose remote call
\* returned a response; one that times out or raises leaves it as it was.
C6_CacheOnlyFromResponse ==
  [][analysis_cache' # analysis_cache =>
       (ndeliv' = ndeliv + 1 /\ ev'.path = "ok")]_vars

C6_Witness ==
  /\ ev.path \in {"timeout", "error"}
  /\ analysis_cache # <<>>

\* C7: a context that is ready and has not been evaluated stays ready when one
\* more message of its user is recorded.
C7_ReadinessMonotonic ==
  [][(/\ ndeliv' = ndeliv + 1
      /\ ev'.recorded
      /\ ev'.update.user \in DOMAIN user_contexts
      /\ ev'.update.user \notin evaluated_users
      /\ ShouldAnalyzeUser(user_contexts[ev'.update.user], now))
     => ev'.ready]_vars

\* C8: when a message has been recorded at time t, no context is left whose
\* last activity is more than 2 x context_window_hours before t.
C8_SweepOnEveryRecord ==
  ev.recorded =>
    \A u \in DOMAIN user_contexts :
      ev.start - user_contexts[u].last_activity <= 2 * WindowMinutes

C8_Witness ==
  /\ ev.recorded
  /\ ev.evicted # {}
  /\ ev.update.user \notin ev.evicted

\* C3: the cool-down check and its update are one step, so of two calls for
\* one user that overlap only one writes a lead: the leads of one user are at
\* least context_window_hours apart.
C3_OneLeadPerCooldown ==
  \A i, j \in 1..Len(leads) :
    (i < j /\ leads[i].lead.telegram_id = leads[j].lead.telegram_id)
      => leads[j].created_at - leads[i].created_at >= WindowMinutes


\* C5: an evaluation whose remote call timed out returns a result, and its
\* score is the heuristic score of the text that was evaluated.
C5_TimeoutFallsBack ==
  (ev.op = "process_message" /\ ev.path = "timeout") =>
    /\ ev.result # None
    /\ ev.result[1].confidence_score =
         SimpleLeadAnalysis(CacheKeyOf(user_contexts[ev.update.user])[2])

\* C9: whenever _analyze_user_context has returned, the analysis cache holds
\* at most 1000 entries.
C9_CacheBounded == Len(analysis_cache) <= CacheCap

C9_Witness ==
  /\ ev.path = "ok"
  /\ Len(analysis_cache) = CacheCap + 1 - CacheTrim
  /\ analysis_cache[1].key[1] = CacheTrim + 1

CrmQuestionOnly(text) ==
  /\ text # NoText
  /\ Len(text) >= 20
  /\ Len(text) <= 50
  /\ AnyIn(CrmWords, Lower(text))
  /\ AnyIn(QuestionWords, Lower(text))
  /\ ~AnyIn(BotWords, Lower(text))
  /\ ~AnyIn(BusinessProblems, Lower(text))
  /\ ~AnyIn(BuyingIntent, Lower(text))
  /\ ~AnyIn(TechRequests, Lower(text))
  /\ ~AnyIn(Competitors, Lower(text))
  /\ ~AnyIn(Irrelevant, Lower(text))

\* C11 as stated: the heuristic score of a CRM question of 20 to 50
\* characters is at least 85, and the message passes the threshold.
C11_CrmQuestionScoresAtLeast85 ==
  (ev.scorer = "heuristic" /\ CrmQuestionOnly(ev.update.text)) =>
    /\ ev.score[1] >= 85
    /\ (ev.op = "channel_process_message" => ev.accepted)

\* C11 as amended: the heuristic score of a CRM question of 20 to 50
\* characters with at least 10 word or space characters is 65, and the
\* message passes the default threshold of 60.
C11_CrmQuestionScores65 ==
  (/\ ev.scorer = "heuristic"
   /\ CrmQuestionOnly(ev.update.text)
   /\ Len(StripSymbols(ev.update.text)) >= 10) =>
    /\ ev.score = Some(65)
    /\ (ev.op = "channel_process_message" => ev.accepted)

C11_Witness ==
  /\ ev.op = "channel_process_message"
  /\ ev.scorer = "heuristic"
  /\ ev.update.text = ChunkAsk
  /\ ev.score = Some(65)
  /\ ev.lead_created

\* C12: a lead is created only from an actionable result: by AIContextParser
\* from a result that is a lead with confidence_score >= min_confidence_score,
\* by ChannelParser from a score >= min_interest_score.
C12_LeadOnlyIfActionable ==
  /\ ev.lead_created =>
       \/ /\ ev.op = "process_message"
          /\ ev.result # None
          /\ ev.result[1].is_lead
          /\ ev.result[1].confidence_score >= cfg.min_confidence_score
       \/ /\ ev.op = "channel_process_message"
          /\ ev.score # None
          /\ ev.score[1] >= cfg.min_interest_score
  /\ \A i \in 1..Len(leads) :
       leads[i].lead.interest_score
         >= Min(cfg.min_confidence_score, cfg.min_interest_score)

C12_Witness ==
  /\ ev.lead_created
  /\ \E i, j \in 1..Len(leads) :
       /\ leads[i].lead.message_text = ChunkAsk
       /\ leads[i].lead.interest_score = 65
       /\ leads[j].lead.message_text # ChunkAsk
       /\ leads[j].lead.interest_score = 85

\* C13: a call for a user whose evaluation was accepted at time t records the
\* message; it starts no evaluation before t + context_window_hours, and it
\* evaluates a ready context once the cool-down has expired.
C13_CooldownBlocksEvaluation ==
  [][(/\ ndeliv' = ndeliv + 1
      /\ ev'.op = "process_message"
      /\ ev'.admitted
      /\ ev'.update.user \in DOMAIN processed_leads)
     => LET u == ev'.update.user
            since == ev'.start - processed_leads[u]
        IN  /\ ev'.recorded
            /\ u \in DOMAIN user_contexts'
            /\ user_contexts'[u].messages # <<>>
            /\ user_contexts'[u].messages[Len(user_contexts'[u].messages)]
                 = [text |-> ev'.update.text,
                    message_id |-> ev'.update.message_id]
            /\ since < WindowMinutes => ~ev'.evaluated
            /\ (since >= WindowMinutes /\ ev'.ready) => ev'.evaluated]_vars

C13_Witness ==
  /\ ev.op = "process_message"
  /\ ev.update.user \in DOMAIN processed_leads
  /\ ev.start - processed_leads[ev.update.user] < WindowMinutes
  /\ ev.recorded
  /\ ev.ready
  /\ ev.recent
  /\ ~ev.evaluated

\* C14: when an evaluation is accepted and create_lead or the notification of
\* the admins fails, the call still records the cool-down entry of the user
\* at its return, keeps the result it cached, and has evaluated once.
C14_CooldownRecordedOnFailure ==
  [][(/\ ndeliv' = ndeliv + 1
      /\ ev'.op = "process_message"
      /\ ev'.accepted
      /\ (~ev'.lead_created \/ ~ev'.notified)) =>
       /\ ev'.evaluated
       /\ ev'.update.user \in DOMAIN processed_leads'
       /\ processed_leads'[ev'.update.user] = now'
       /\ accepted'[ev'.update.user] = Append(accepted[ev'.update.user], now')
       /\ CacheKeyOf(user_contexts'[ev'.update.user]) \in CacheKeys(analysis_cache')
       /\ (~ev'.lead_created => leads' = leads)]_vars

C14_Witness ==
  /\ ev.op = "process_message"
  /\ ev.accepted
  /\ ~ev.lead_created
  /\ leads = <<>>
  /\ ~ev.notified
  /\ ev.update.user \in DOMAIN processed_leads
  /\ processed_leads[ev.update.user] = now

\* C15: when the score passes the threshold and create_lead fails,
\* ChannelParser.process_message still records the (user, content) key in
\* recent_leads_cache and still updates the channel statistics.
C15_DedupUpdatedOnCreateFailure ==
  (/\ ev.op = "channel_process_message"
   /\ ev.accepted
   /\ "create_lead" \in ev.failures) =>
    /\ LeadKey(ev.update.user, ev.update.text) \in DOMAIN recent_leads_cache
    /\ ev.stats # None

\* C16: a response that was received but is malformed gives a result with
\* the neutral default in every field that is missing or rejected, and every
\* result of a received response, this one included, is stored in the cache
\* under the key of the context.
Malformed(resp) ==
  \/ ~resp.json
  \/ resp.invalid # {}
  \/ {"is_lead", "confidence_score", "lead_quality", "urgency_level"}
       \ DOMAIN resp.data # {}

C16_MalformedGivesDefaults ==
  /\ \A resp \in {r \in Responses : Malformed(r)} :
     \A f \in {"is_lead", "confidence_score", "lead_quality", "urgency_level"} :
       (~resp.json \/ f \in resp.invalid \/ f \notin DOMAIN resp.data) =>
         ParseAIResponse(resp)[f] = BaseResult[f]
  /\ (ev.op = "process_message" /\ ev.path = "ok") =>
       /\ ev.result # None
       /\ \E resp \in Responses : ev.result = Some(ParseAIResponse(resp))
       /\ ev.update.user \in DOMAIN user_contexts
       /\ CacheKeyOf(user_contexts[ev.update.user]) \in CacheKeys(analysis_cache)
       /\ CacheGet(analysis_cache, CacheKeyOf(user_contexts[ev.update.user]))
            = ev.result[1]

C16_Witness ==
  /\ ev.op = "process_message"
  /\ ev.path = "ok"
  /\ ev.result = Some(BaseResult)
  /\ CacheGet(analysis_cache, CacheKeyOf(user_contexts[ev.update.user]))
       = BaseResult

\* C17: whatever fails in a call of process_message of either parser (the
\* remote scorer, create_lead, the notification, the statistics update),
\* the call raises nothing, and an evaluation that gave no result writes no
\* lead and accepts nothing.
C17_NoFailureReachesCaller ==
  (/\ ev.op \in {"process_message", "channel_process_message"}
   /\ ev.failures # {}) =>
    /\ ~ev.raised
    /\ (ev.score = None => ~ev.lead_created /\ ~ev.accepted)
    /\ (ev.lead_created => "create_lead" \notin ev.failures)

C17_Witness ==
  /\ ev.op = "channel_process_message"
  /\ "create_lead" \in ev.failures
  /\ ~ev.raised
  /\ ~ev.lead_created
  /\ 1 \in DOMAIN processed_leads

C19_DispatcherIsChannelMonitored ==
  (/\ ev.op \in {"handle_any_message", "channel_process_message"}
   /\ ev.update.chat.type \in {"group", "supergroup", "channel"}
   /\ ev.update.user # NoUser
   /\ ev.update.text # NoText) =>
    ((ev.op = "channel_process_message")
       <=> IsChannelMonitored(ev.update.chat.id, ev.update.chat.username))

\* C20: processing a message of one user leaves what the parser holds of
\* every other user (the stored context and the cool-down entry) as it is
\* in the run where that message is not processed.
C20_UsersIndependent ==
  [][(/\ ndeliv' = ndeliv + 1
      /\ ev'.op = "process_message"
      /\ ev'.admitted) =>
       \A b \in Users \ {ev'.update.user} :
         /\ b \in DOMAIN user_contexts =>
              /\ b \in DOMAIN user_contexts'
              /\ user_contexts'[b] = user_contexts[b]
         /\ b \in DOMAIN processed_leads =>
              /\ b \in DOMAIN processed_leads'
              /\ processed_leads'[b] = processed_leads[b]]_vars

\* C21: an evaluation of a context whose fingerprint is in the analysis
\* cache returns the cached result without calling the remote classifier,
\* whether or not the classifier is available.
C21_CacheHitReturnsCached ==
  [][(/\ ndeliv' = ndeliv + 1
      /\ ev'.op = "process_message"
      /\ ev'.evaluated
      /\ CacheKeyOf(user_contexts'[ev'.update.user]) \in CacheKeys(analysis_cache)) =>
       /\ ev'.path = "hit"
       /\ ev'.result =
            Some(CacheGet(analysis_cache,
                          CacheKeyOf(user_contexts'[ev'.update.user])))
       /\ analysis_cache' = analysis_cache]_vars

\* C22: an insert that takes the analysis cache over its cap evicts the
\* CacheTrim entries inserted first; the entries inserted after them are
\* kept in their order and the new entry is the last one.
C22_OldestHalfEvicted ==
  [][(/\ ev'.op = "force_analyze_user"
      /\ ev'.path = "ok"
      /\ Len(analysis_cache) + 1 > CacheCap) =>
       /\ Len(analysis_cache') = Len(analysis_cache) + 1 - CacheTrim
       /\ \A i \in 1..CacheTrim :
            analysis_cache[i].key \notin CacheKeys(analysis_cache')
       /\ \A i \in (CacheTrim + 1)..Len(analysis_cache) :
            analysis_cache'[i - CacheTrim] = analysis_cache[i]
       /\ analysis_cache'[Len(analysis_cache')] =
            [key |-> CacheKeyOf(user_contexts[ev'.update.user]),
             value |-> ev'.result[1]]]_vars

C22_Witness ==
  /\ ev.op = "force_analyze_user"
  /\ ev.path = "ok"
  /\ Len(analysis_cache) = CacheCap + 1 - CacheTrim
  /\ analysis_cache[1].key[1] = CacheTrim + 1
  /\ analysis_cache[Len(analysis_cache)].key[1] = ev.update.user
  /\ ev.update.user = CacheCap + 1

\* C23: when a call of ChannelParser.process_message returns, the seen set
\* holds at most ProcessedCap keys; a call that takes it over the cap prunes
\* ProcessedTrim keys and still analyzes its message.
C23_SeenSetBounded ==
  [][(ndeliv' = ndeliv + 1 /\ ev'.op = "channel_process_message") =>
       /\ Cardinality(processed_messages') <= ProcessedCap
       /\ (/\ <<ev'.update.chat.id, ev'.update.message_id>> \notin processed_messages
           /\ ev'.update.text # NoText) =>
            /\ ev'.evaluated
            /\ ev'.score # None
            /\ (Cardinality(processed_messages) = ProcessedCap =>
                  Cardinality(processed_messages') = ProcessedCap + 1 - ProcessedTrim)
      ]_vars

C23_Witness ==
  /\ ev.op = "channel_process_message"
  /\ ev.update.message_id = ProcessedCap + 1
  /\ ev.evaluated
  /\ ev.lead_created
  /\ Cardinality(processed_messages) = ProcessedCap + 1 - ProcessedTrim

\* C24: a user outside the cool-down whose context holds at least
\* min_messages_for_analysis messages and fewer than 3, and who has been
\* silent for more than QuietMinutes, is evaluated when the next message of
\* that user is processed.
C24_QuietUserEvaluated ==
  [][(/\ ndeliv' = ndeliv + 1
      /\ ev'.op = "process_message"
      /\ ev'.admitted
      /\ ev'.update.user \in DOMAIN user_contexts
      /\ ev'.update.user \notin DOMAIN processed_leads
      /\ Len(user_contexts[ev'.update.user].messages)
           >= cfg.min_messages_for_analysis
      /\ Len(user_contexts[ev'.update.user].messages) < 3
      /\ now - user_contexts[ev'.update.user].last_activity > QuietMinutes) =>
       ev'.evaluated]_vars

\* C25: an evaluation that does not accept writes no cool-down entry and
\* keeps the context, and a later message of a user whose evaluations were
\* all rejected is evaluated again as soon as it leaves the context ready.
C25_RejectionNotTerminal ==
  [][(ndeliv' = ndeliv + 1 /\ ev'.op = "process_message") =>
       /\ (ev'.evaluated /\ ~ev'.accepted) =>
            /\ processed_leads' = processed_leads
            /\ ev'.update.user \in DOMAIN user_contexts'
       /\ (/\ ev'.update.user \in evaluated_users
           /\ accepted[ev'.update.user] = <<>>
           /\ ev'.admitted
           /\ ev'.ready) => ev'.evaluated]_vars

C25_Witness ==
  /\ ev.op = "process_message"
  /\ ev.evaluated
  /\ ev.path = "hit"
  /\ ~ev.accepted
  /\ accepted[ev.update.user] = <<>>
  /\ ev.update.user \notin DOMAIN processed_leads
  /\ ev.update.user \in DOMAIN user_contexts

\* C26: two leads that ChannelParser created for the same user and the
\* same first LeadKeyChars characters are at least RecentLeadMinutes apart,
\* also when the lookup of _lead_exists_fixed fails, and a call removes from
\* recent_leads_cache only entries older than RecentLeadMinutes.
C26_NoRepeatedLeadWithinHour ==
  [][(ndeliv' = ndeliv + 1 /\ ev'.op = "channel_process_message") =>
       /\ \A i, j \in 1..Len(leads') :
            (/\ i < j
             /\ leads'[i].lead.telegram_id = leads'[j].lead.telegram_id
             /\ LeadKey(leads'[i].lead.telegram_id, leads'[i].lead.message_text)
                  = LeadKey(leads'[j].lead.telegram_id, leads'[j].lead.message_text))
              => leads'[j].created_at - leads'[i].created_at >= RecentLeadMinutes
       /\ \A k \in (DOMAIN recent_leads_cache) \ DOMAIN recent_leads_cache' :
            now' - recent_leads_cache[k] > RecentLeadMinutes]_vars

C26_Witness ==
  /\ ev.op = "channel_process_message"
  /\ ev.scorer = "heuristic"
  /\ "lead_exists" \in ev.failures
  /\ ev.accepted
  /\ ~ev.lead_created
  /\ ev.stats = Some(1)
  /\ LeadKey(ev.update.user, ev.update.text) \in DOMAIN recent_leads_cache
  /\ \E i \in 1..Len(leads) :
       /\ leads[i].lead.telegram_id = ev.update.user
       /\ leads[i].lead.message_text = ev.update.text
       /\ now - leads[i].created_at < RecentLeadMinutes

\* C27: after AIContextParser has recorded a message, the channel_info of
\* the sender's context is the chat of that message, and a lead created by
\* the call names that chat as its source_channel.
C27_SourceChannelIsLatestChat ==
  (ev.op = "process_message" /\ ev.recorded) =>
    /\ user_contexts[ev.update.user].channel_info = ev.update.chat
    /\ ev.lead_created =>
         leads[Len(leads)].lead.source_channel =
           (IF ev.update.chat.title # "" THEN ev.update.chat.title
            ELSE ToString(ev.update.chat.id))

\* C28: a call of process_message of either parser that updates the channel
\* statistics passes leads count 1 exactly when that call created a lead.
C28_StatsCountCreatedLeads ==
  (/\ ev.op \in {"process_message", "channel_process_message"}
   /\ ev.stats # None) =>
    (ev.stats = Some(1) <=> ev.lead_created)

\* C29: a call of process_message for a message that is not admitted (the
\* parser is disabled, the update has no user or no text, or, in
\* AIContextParser, the chat is not monitored) leaves the contexts, the
\* caches, the cool-down entries and the seen set unchanged and calls
\* neither the scorer nor the store, the statistics or the notification.
NotAdmitted(op, upd) ==
  \/ ~cfg.enabled
  \/ upd.user = NoUser
  \/ upd.text = NoText
  \/ op = "process_message"
       /\ ~IsChannelMonitored(upd.chat.id, upd.chat.username)

C30_KeepsSendingGetsEvaluated ==
  \A u \in Users :
    Len(arrivals[u]) >= MaxDeliveries => u \in evaluated_users

====
